---- MODULE Spec2Model ----
(***************************************************************************)
(* Streaming Aho-Corasick search-and-replace (aho-corasick-async).          *)
(*                                                                         *)
(* The automaton (src/src/automaton.rs), the reader adapter                *)
(* (src/src/reader.rs) and the writer adapter (src/src/writer.rs) as one   *)
(* state machine.  A trie node is identified by the byte path that leads   *)
(* to it from the root; Rc/Weak pointers are node identities.  An Option   *)
(* is a sequence: <<>> is None and <<x>> is Some(x).                       *)
(***************************************************************************)
EXTENDS Integers, Sequences, FiniteSets, TLC

None == <<>>
Some(x) == <<x>>

---------------------------------------------------------------------------
(* Bounds of the model *)

\* longest input stream (bytes) a run feeds through an adapter
MaxInput == 3
\* largest chunk: caller buffer of poll_read / input slice of poll_write
MaxChunk == 2

\* input bytes
Alphabet == {"a", "b", "c"}

---------------------------------------------------------------------------
(* The automaton: trie nodes, construction, links *)

root == <<>>

\* struct AcAutomatonNode, as built by AcAutomaton::new (root) and add_word
AcAutomatonNode(depth) ==
    [depth |-> depth,
     children |-> <<>>,
     suffix_link |-> None,
     output_link |-> None,
     is_word |-> FALSE,
     replacement |-> None]

\* HashMap::get / entry on `children`: the keys present
HasChild(nodes, n, val) == val \in DOMAIN nodes[n].children

RECURSIVE add_word(_, _, _, _)
\* AcAutomatonNode::add_word: walk/create one node per byte, mark the last
add_word(nodes, self, word, replacement) ==
    IF Len(word) = 0
    THEN [nodes EXCEPT ![self].is_word = TRUE,
                       ![self].replacement = replacement]
    ELSE LET first == Head(word)
             remaining_word == Tail(word)
             child == Append(self, first)
             nodes1 == IF HasChild(nodes, self, first)
                       THEN nodes
                       ELSE (child :> AcAutomatonNode(nodes[self].depth + 1))
                            @@ [nodes EXCEPT ![self].children = (first :> child) @@ @]
         IN add_word(nodes1, child, remaining_word, replacement)

RECURSIVE add_words(_, _)
\* the `for word in words` loop of AcAutomaton::new
add_words(nodes, words) ==
    IF words = <<>> THEN nodes
    ELSE add_words(add_word(nodes, root, Head(words)[1], Head(words)[2]), Tail(words))

\* mutant of suffix_search: one ancestor is tried, then the root is taken
suffix_search_once(nodes, ancestor_link, val) ==
    IF HasChild(nodes, ancestor_link, val)
    THEN nodes[ancestor_link].children[val]
    ELSE root

RECURSIVE suffix_search(_, _, _)
\* the 'suffix_search loop of calculate_children_links
suffix_search(nodes, ancestor_link, val) ==
    IF HasChild(nodes, ancestor_link, val)
    THEN nodes[ancestor_link].children[val]
    ELSE IF nodes[ancestor_link].suffix_link # None
         THEN suffix_search(nodes, nodes[ancestor_link].suffix_link[1], val)
         ELSE ancestor_link \* Root is reached

\* mutant of calculate_child_links: the search for the child's suffix link
\* starts at the node itself instead of at the node's suffix link
calculate_child_links_from_self(st, self, val) ==
    LET nodes == st.nodes
        child == nodes[self].children[val]
    IN IF nodes[self].suffix_link = None
       THEN [st EXCEPT !.panic = TRUE]
       ELSE LET suffix_link == suffix_search(nodes, self, val)
                output_link == IF nodes[suffix_link].is_word
                               THEN Some(suffix_link)
                               ELSE nodes[suffix_link].output_link
            IN [st EXCEPT !.nodes[child].suffix_link = Some(suffix_link),
                          !.nodes[child].output_link = output_link]

\* one iteration of the `for (val, child)` loop of calculate_children_links;
\* the result carries `panic` when the node itself has no suffix link
calculate_child_links(st, self, val) ==
    LET nodes == st.nodes
        child == nodes[self].children[val]
    IN IF nodes[self].suffix_link = None
       THEN [st EXCEPT !.panic = TRUE]
       ELSE LET suffix_link == suffix_search(nodes, nodes[self].suffix_link[1], val)
                output_link == IF nodes[suffix_link].is_word
                               THEN Some(suffix_link)
                               ELSE nodes[suffix_link].output_link
            IN [st EXCEPT !.nodes[child].suffix_link = Some(suffix_link),
                          !.nodes[child].output_link = output_link]

RECURSIVE calculate_children_links(_, _, _)
\* AcAutomatonNode::calculate_children_links over the children still to do
calculate_children_links(st, self, vals) ==
    IF vals = {} THEN st
    ELSE LET val == CHOOSE v \in vals : TRUE
         IN calculate_children_links(calculate_child_links(st, self, val),
                                     self, vals \ {val})

ChildrenOf(nodes, n) == {nodes[n].children[v] : v \in DOMAIN nodes[n].children}

RECURSIVE walk_level(_, _)
\* the `for node_ref in to_walk` loop of breadth_first_walk
walk_level(st, to_walk) ==
    IF to_walk = {} THEN st
    ELSE LET node_ref == CHOOSE n \in to_walk : TRUE
         IN walk_level(calculate_children_links(st, node_ref,
                                                DOMAIN st.nodes[node_ref].children),
                       to_walk \ {node_ref})

RECURSIVE walk_levels(_, _)
\* the `while to_walk.len() > 0` loop of breadth_first_walk
walk_levels(st, to_walk) ==
    IF to_walk = {} THEN st
    ELSE LET st1 == walk_level(st, to_walk)
             new_to_walk == UNION {ChildrenOf(st1.nodes, n) : n \in to_walk}
         IN walk_levels(st1, new_to_walk)

\* mutant of breadth_first_walk: the first-level children are walked without
\* being given the root as suffix link first
breadth_first_walk_no_first(nodes) ==
    walk_levels([nodes |-> nodes, panic |-> FALSE], ChildrenOf(nodes, root))

\* AcAutomaton::breadth_first_walk
breadth_first_walk(nodes) ==
    LET firsts == ChildrenOf(nodes, root)
        nodes1 == [n \in DOMAIN nodes |->
                     IF n \in firsts
                     THEN [nodes[n] EXCEPT !.suffix_link = Some(root)]
                     ELSE nodes[n]]
    IN walk_levels([nodes |-> nodes1, panic |-> FALSE], firsts)

\* AcAutomaton::new: the trie of a word list, with its links
NewAutomaton(ws) ==
    breadth_first_walk(add_words(root :> AcAutomatonNode(0), ws))

\* The word lists (pattern, optional replacement) the model is run with:
\* the cases of tests/test.rs scaled to a three-byte alphabet, and the
\* shapes of overlap between patterns.
WordLists ==
    { << <<<<"a","b">>, Some(<<"X","Y">>)>> >>,          \* ab -> AB
      << <<<<"a","b","c">>, Some(<<>>)>> >>,             \* abc -> ""
      << <<<<"a","a">>, Some(<<"X","X">>)>> >>,          \* aaaa -> AAAA
      << <<<<"b">>, Some(<<"a","b">>)>>,                 \* he -> she
         <<<<"a","b">>, Some(<<"b">>)>>,                 \* she -> he
         <<<<"b","c">>, Some(<<"X">>)>> >>,              \* her -> his
      << <<<<"a","b">>, None>>,                          \* she, protected
         <<<<"b">>, Some(<<"X","Y">>)>>,                 \* he -> him
         <<<<"a","b","c">>, Some(<<"Z">>)>> >>,          \* shed -> shack
      << <<<<"b">>, Some(<<"X">>)>>,                     \* a word that is
         <<<<"b","c">>, Some(<<"Y">>)>>,                 \* the suffix of an
         <<<<"a","b","a">>, Some(<<"Z">>)>> >>,          \* inner node (ab)
      << <<<<"b">>, None>>,                              \* the same, the
         <<<<"a","b","c">>, Some(<<"X">>)>> >>,          \* word protected
      << <<<<>>, Some(<<"X">>)>>,                        \* an empty pattern
         <<<<"a","b">>, Some(<<"Y">>)>>,                 \* and a pattern
         <<<<"a","b">>, Some(<<"Z">>)>> >>,              \* given twice
      << <<<<"a","b">>, Some(<<>>)>> >>,                 \* ab -> ""
      << <<<<"a","b","c">>, Some(<<"X">>)>>,             \* two patterns, one
         <<<<"b","a","b">>, Some(<<"Y">>)>> >> }         \* failing into the other

\* the tries, each built once (the trie is never mutated after new())
Automata == [ws \in WordLists |-> NewAutomaton(ws)]
Nodes(ws) == Automata[ws].nodes

\* mutant of find_next_state: after one failure link the search stops
find_next_state_once(nodes, this, char) ==
    IF HasChild(nodes, this, char)
    THEN nodes[this].children[char]
    ELSE IF nodes[this].suffix_link # None
         THEN LET link == nodes[this].suffix_link[1]
              IN IF HasChild(nodes, link, char)
                 THEN nodes[link].children[char] ELSE root
         ELSE this

\* AcAutomatonNode::find_next_state
RECURSIVE find_next_state(_, _, _)
find_next_state(nodes, this, char) ==
    IF HasChild(nodes, this, char)
    THEN nodes[this].children[char]
    ELSE IF nodes[this].suffix_link # None
         THEN find_next_state(nodes, nodes[this].suffix_link[1], char)
         ELSE this \* Root is the only node not having a suffix link

\* AcAutomaton::next_state
next_state(nodes, state, char) == find_next_state(nodes, state, char)
\* AcAutomaton::is_state_root
is_state_root(nodes, state) == nodes[state].suffix_link = None
\* AcAutomaton::is_state_word
is_state_word(nodes, state) == nodes[state].is_word
\* AcAutomaton::state_depth
state_depth(nodes, state) == nodes[state].depth
\* AcAutomaton::state_replacement
state_replacement(nodes, state) == nodes[state].replacement
\* AcAutomaton::reset_state
reset_state == root

---------------------------------------------------------------------------
(* State *)

VARIABLES
    kind,                 \* "reader" (into_reader) or "writer" (into_writer)
    words,                \* the argument of AhoCorasick::new
    state,                \* ac.automaton.state, the cursor
    potential_buffer,     \* both adapters: start of a potential match
    buffer,               \* both adapters: the internal Vec<u8>; the reader's
                          \* is kept by its length, with NUL for a byte: what
                          \* the source writes into it is read in the same
                          \* call (answer.bytes) and never again
    pending_write_buffer, \* reader: output waiting for the next poll_read
    pending_state,        \* writer: Option<PendingState>
    input,                \* bytes handed to the engine so far
    output,               \* bytes out: returned to the reader's caller, or
                          \* accepted by the writer's sink
    phase,                \* "open"; reader: "eof" once upstream ended; writer:
                          \* "closing" once poll_close was called; "done";
                          \* "failed" after an error was returned
    last,                 \* the last adapter call and what it returned
    events,               \* what the underlying source/sink has done so far
                          \* besides answering in full
    advances,             \* calls of next_state so far
    accepted              \* input bytes poll_write has reported accepted

vars == <<kind, words, state, potential_buffer, buffer, pending_write_buffer,
          pending_state, input, output, phase, last, events, advances, accepted>>

\* the b'\0' that Vec::resize fills with
NUL == "nul"

\* Vec::resize(n, b'\0') when n exceeds the length
Resize(buf, n) ==
    IF n > Len(buf) THEN buf \o [i \in 1..(n - Len(buf)) |-> NUL] ELSE buf

RECURSIVE SeqsOfLen(_)
\* byte strings of length n
SeqsOfLen(n) ==
    IF n = 0 THEN {<<>>}
    ELSE {Append(s, b) : s \in SeqsOfLen(n - 1), b \in Alphabet}

\* byte strings of a length in lo..hi
Chunks(lo, hi) == UNION {SeqsOfLen(n) : n \in lo..hi}

Min(a, b) == IF a < b THEN a ELSE b

NoAnswer == [tag |-> "none", n |-> 0]
Ok(n) == [tag |-> "Ok", n |-> n]
Pending == [tag |-> "Pending", n |-> 0]
Err == [tag |-> "Err", n |-> 0]

\* what the adapter's caller observes of one call
Call(call, arg, fresh, asked, offered, answer, ret, woke) ==
    [call |-> call, arg |-> arg, fresh |-> fresh, asked |-> asked,
     offered |-> offered, answer |-> answer, ret |-> ret, woke |-> woke]

Faults == {"io_error", "short_write"}

\* the underlying source/sink gives at most one off-nominal answer in a run
MayFail == IF events \cap Faults = {} THEN {Err} ELSE {}

\* AsyncWrite::poll_write of the sink on a slice: all of it, all but the last
\* byte of it (a short write), an error, or not ready
SinkWriteAnswers(slice) ==
    {Ok(Len(slice)), Pending} \cup MayFail
      \cup (IF events \cap Faults = {} /\ Len(slice) > 0
            THEN {Ok(Len(slice) - 1)} ELSE {})

\* AsyncWrite::poll_flush and poll_close of the sink
SinkAnswers == {Ok(0), Pending} \cup MayFail

\* what the sink holds after its answer to a slice
SinkAfter(sink, slice, answer) ==
    IF answer.tag = "Ok" THEN sink \o SubSeq(slice, 1, answer.n) ELSE sink

\* the events an answer of the source/sink to a slice adds
EventsAfter(slice, answer) ==
    events \cup (IF answer.tag = "Err" THEN {"io_error"} ELSE {})
           \cup (IF answer.tag = "Pending" THEN {"not_ready"} ELSE {})
           \cup (IF answer.tag = "Ok" /\ answer.n < Len(slice)
                 THEN {"short_write"} ELSE {})

\* a chunk boundary fell inside a potential match: the chunk arrives while
\* the potential buffer holds the start of one
CutInMatch(chunk) ==
    IF Len(chunk) > 0 /\ potential_buffer # <<>> THEN {"cut_in_match"} ELSE {}

\* mutant of Kept: the loop writes the front bytes out without popping them
Kept_unpopped(pot, depth) == pot

\* mutant of Popped: the bytes the loop pops are not written out
Popped_dropped(pot, depth) == <<>>

\* the prefix of the potential buffer the `while len > depth` loop pops, and
\* what it leaves
Popped(pot, depth) ==
    IF Len(pot) > depth THEN SubSeq(pot, 1, Len(pot) - depth) ELSE <<>>
Kept(pot, depth) ==
    IF Len(pot) > depth THEN SubSeq(pot, Len(pot) - depth + 1, Len(pot)) ELSE pot

---------------------------------------------------------------------------
(* Writer adapter *)

\* AhoCorasickAsyncWriter::write_to_buffer; `panic` is the index panic of
\* buf[*idx] when doubling an empty buffer leaves it empty
writer_write_to_buffer(l, char) ==
    LET buf == IF l.write_idx >= Len(l.buffer)
               THEN Resize(l.buffer, Len(l.buffer) * 2)
               ELSE l.buffer
    IN IF l.write_idx < Len(buf)
       THEN [l EXCEPT !.buffer = [buf EXCEPT ![l.write_idx + 1] = char],
                      !.write_idx = @ + 1]
       ELSE [l EXCEPT !.panic = TRUE]

RECURSIVE writer_write_all(_, _)
\* write_to_buffer for each byte of a sequence, in order
writer_write_all(l, bytes) ==
    IF bytes = <<>> THEN l
    ELSE writer_write_all(writer_write_to_buffer(l, Head(bytes)), Tail(bytes))

\* mutant of writer_process_byte: the byte is pushed to the front of the
\* potential buffer
writer_process_byte_push_front(nodes, l, byte) ==
    LET st == next_state(nodes, l.state, byte)
        current_state_depth == state_depth(nodes, st)
    IN IF is_state_root(nodes, st)
       THEN [writer_write_to_buffer(writer_write_all(l, l.potential_buffer), byte)
                EXCEPT !.state = st, !.potential_buffer = <<>>]
       ELSE LET pot == <<byte>> \o l.potential_buffer
                l1 == [writer_write_all(l, Popped(pot, current_state_depth))
                         EXCEPT !.state = st,
                                !.potential_buffer = Kept(pot, current_state_depth)]
            IN IF is_state_word(nodes, st)
               THEN IF state_replacement(nodes, st) # None
                    THEN [writer_write_all(l1, state_replacement(nodes, st)[1])
                            EXCEPT !.potential_buffer = <<>>,
                                   !.state = reset_state]
                    ELSE [writer_write_all(l1, l1.potential_buffer)
                            EXCEPT !.potential_buffer = <<>>,
                                   !.state = reset_state]
               ELSE l1

\* mutant of writer_process_byte: the cursor is reset only after a word that
\* has a replacement
writer_process_byte_no_reset(nodes, l, byte) ==
    LET st == next_state(nodes, l.state, byte)
        current_state_depth == state_depth(nodes, st)
    IN IF is_state_root(nodes, st)
       THEN [writer_write_to_buffer(writer_write_all(l, l.potential_buffer), byte)
                EXCEPT !.state = st, !.potential_buffer = <<>>]
       ELSE LET pot == Append(l.potential_buffer, byte)
                l1 == [writer_write_all(l, Popped(pot, current_state_depth))
                         EXCEPT !.state = st,
                                !.potential_buffer = Kept(pot, current_state_depth)]
            IN IF is_state_word(nodes, st)
               THEN IF state_replacement(nodes, st) # None
                    THEN [writer_write_all(l1, state_replacement(nodes, st)[1])
                            EXCEPT !.potential_buffer = <<>>,
                                   !.state = reset_state]
                    ELSE [writer_write_all(l1, l1.potential_buffer)
                            EXCEPT !.potential_buffer = <<>>]
               ELSE l1

\* the body of `for byte in buf` of poll_write
writer_process_byte(nodes, l, byte) ==
    LET st == next_state(nodes, l.state, byte)
        current_state_depth == state_depth(nodes, st)
    IN IF is_state_root(nodes, st)
       THEN [writer_write_to_buffer(writer_write_all(l, l.potential_buffer), byte)
                EXCEPT !.state = st, !.potential_buffer = <<>>]
       ELSE LET pot == Append(l.potential_buffer, byte)
                l1 == [writer_write_all(l, Popped(pot, current_state_depth))
                         EXCEPT !.state = st,
                                !.potential_buffer = Kept(pot, current_state_depth)]
            IN IF is_state_word(nodes, st)
               THEN IF state_replacement(nodes, st) # None
                    THEN [writer_write_all(l1, state_replacement(nodes, st)[1])
                            EXCEPT !.potential_buffer = <<>>,
                                   !.state = reset_state]
                    ELSE [writer_write_all(l1, l1.potential_buffer)
                            EXCEPT !.potential_buffer = <<>>,
                                   !.state = reset_state]
               ELSE l1

RECURSIVE writer_process(_, _, _)
\* the `for byte in buf` loop of poll_write
writer_process(nodes, l, buf) ==
    IF buf = <<>> THEN l
    ELSE writer_process(nodes, writer_process_byte(nodes, l, Head(buf)), Tail(buf))

\* mutant of writer_engine: the potential buffer is local to the chunk
writer_engine_chunk_local(nodes, st, pot, buff, buf) ==
    writer_process(nodes,
                   [state |-> st, potential_buffer |-> <<>>,
                    buffer |-> Resize(buff, Len(buf) + Len(pot)),
                    write_idx |-> 0, panic |-> FALSE],
                   buf)

\* poll_write up to the sink: the resize and the engine over buf
writer_engine(nodes, st, pot, buff, buf) ==
    writer_process(nodes,
                   [state |-> st, potential_buffer |-> pot,
                    buffer |-> Resize(buff, Len(buf) + Len(pot)),
                    write_idx |-> 0, panic |-> FALSE],
                   buf)

\* mutant of writer_ret: the count the sink reported is passed on
writer_ret_sink(answer, n) ==
    IF answer = Pending THEN Pending
    ELSE IF answer.tag = "Ok" THEN Ok(answer.n) ELSE Ok(n)

\* poll_write, lines 60-61 and 117-127: what it returns for the sink's
\* answer: Ready(_) => Ok(n)
writer_ret(answer, n) == IF answer = Pending THEN Pending ELSE Ok(n)

\* mutant of PollWriteRetry: the two counts of the PendingState are swapped
PollWriteRetrySwapped ==
    LET pending == pending_state[1]
        slice == SubSeq(buffer, 1, pending.bytes_read)
    IN \E answer \in SinkWriteAnswers(slice) :
        /\ output' = SinkAfter(output, slice, answer)
        /\ events' = EventsAfter(slice, answer)
        /\ pending_state' = IF answer = Pending THEN Some(pending) ELSE None
        /\ accepted' = accepted + (IF answer = Pending THEN 0 ELSE pending.bytes_to_write)
        /\ last' = Call("poll_write", pending.bytes_to_write, FALSE, "write", slice,
                        answer, writer_ret(answer, pending.bytes_to_write), FALSE)
        /\ UNCHANGED <<kind, words, state, potential_buffer, buffer,
                       pending_write_buffer, input, phase, advances>>

\* mutant of PollWriteRetry: the PendingState is taken and the input length
\* reported, but the saved slice is not offered to the sink again
PollWriteRetryDrop ==
    LET pending == pending_state[1]
    IN /\ pending_state' = None
       /\ accepted' = accepted + pending.bytes_read
       /\ last' = Call("poll_write", pending.bytes_read, FALSE, "none", <<>>,
                       NoAnswer, Ok(pending.bytes_read), FALSE)
       /\ UNCHANGED <<kind, words, state, potential_buffer, buffer,
                      pending_write_buffer, input, output, phase, events, advances>>

\* poll_write, lines 58-67: a PendingState is outstanding; the saved slice is
\* offered again and buf is not looked at
PollWriteRetry ==
    LET pending == pending_state[1]
        slice == SubSeq(buffer, 1, pending.bytes_to_write)
    IN \E answer \in SinkWriteAnswers(slice) :
        /\ output' = SinkAfter(output, slice, answer)
        /\ events' = EventsAfter(slice, answer)
        /\ pending_state' = IF answer = Pending THEN Some(pending) ELSE None
        /\ accepted' = accepted + (IF answer = Pending THEN 0 ELSE pending.bytes_read)
        /\ last' = Call("poll_write", pending.bytes_read, FALSE, "write", slice,
                        answer, writer_ret(answer, pending.bytes_read), FALSE)
        /\ UNCHANGED <<kind, words, state, potential_buffer, buffer,
                       pending_write_buffer, input, phase, advances>>

\* poll_write, lines 68-141: the engine runs over buf, then the output is
\* offered to the sink
PollWriteFresh(buf) ==
    LET l == writer_engine(Nodes(words), state, potential_buffer, buffer, buf)
        slice == SubSeq(l.buffer, 1, l.write_idx)
    IN /\ Len(input) + Len(buf) <= MaxInput
       /\ state' = l.state
       /\ potential_buffer' = l.potential_buffer
       /\ buffer' = l.buffer
       /\ input' = input \o buf
       /\ advances' = advances + Len(buf)
       /\ phase' = IF l.panic THEN "panicked" ELSE phase
       /\ IF l.write_idx > 0
          THEN \E answer \in SinkWriteAnswers(slice) :
                /\ output' = SinkAfter(output, slice, answer)
                /\ events' = EventsAfter(slice, answer) \cup CutInMatch(buf)
                /\ pending_state' =
                      IF answer = Pending
                      THEN Some([bytes_to_write |-> l.write_idx,
                                 bytes_read |-> Len(buf)])
                      ELSE None
                /\ accepted' = accepted + (IF answer = Pending THEN 0 ELSE Len(buf))
                /\ last' = Call("poll_write", Len(buf), TRUE, "write", slice,
                                answer, writer_ret(answer, Len(buf)), FALSE)
          ELSE /\ accepted' = accepted + Len(buf)
               /\ last' = Call("poll_write", Len(buf), TRUE, "none", <<>>, NoAnswer,
                               Ok(Len(buf)), FALSE)
               /\ events' = events \cup CutInMatch(buf)
               /\ UNCHANGED <<output, pending_state>>
       /\ UNCHANGED <<kind, words, pending_write_buffer>>

\* AhoCorasickAsyncWriter::poll_write
PollWrite ==
    /\ kind = "writer"
    /\ phase = "open"
    /\ IF pending_state # None
       THEN PollWriteRetry
       ELSE \E buf \in Chunks(0, MaxChunk) : PollWriteFresh(buf)

\* AhoCorasickAsyncWriter::poll_flush
PollFlush ==
    /\ kind = "writer"
    /\ phase = "open"
    /\ \E answer \in SinkAnswers :
        /\ events' = EventsAfter(<<>>, answer)
        /\ phase' = IF answer = Err THEN "failed" ELSE phase
        /\ last' = Call("poll_flush", 0, FALSE, "flush", <<>>, answer, answer, FALSE)
    /\ UNCHANGED <<kind, words, state, potential_buffer, buffer,
                   pending_write_buffer, pending_state, input, output,
                   advances, accepted>>

\* a poll_close while a PendingState is outstanding gives the write up
Abandoned == IF pending_state # None THEN {"abandoned_write"} ELSE {}

\* poll_close, lines 151-163: the residual potential buffer is offered to the
\* sink's poll_write
PollCloseResidual ==
    \E answer \in SinkWriteAnswers(potential_buffer) :
        /\ output' = SinkAfter(output, potential_buffer, answer)
        /\ events' = EventsAfter(potential_buffer, answer) \cup Abandoned
        /\ potential_buffer' = IF answer = Pending THEN potential_buffer ELSE <<>>
        /\ last' = Call("poll_close", 0, FALSE, "write", potential_buffer, answer,
                        Pending, answer # Pending)
        /\ phase' = "closing"

\* poll_close, line 165: the sink's own poll_close
PollCloseSink ==
    \E answer \in SinkAnswers :
        /\ events' = EventsAfter(<<>>, answer) \cup Abandoned
        /\ phase' = CASE answer.tag = "Ok" -> "done"
                      [] answer.tag = "Err" -> "failed"
                      [] OTHER -> "closing"
        /\ last' = Call("poll_close", 0, FALSE, "close", <<>>, answer, answer, FALSE)
        /\ UNCHANGED <<output, potential_buffer>>

\* mutant of PollClose: the sink's poll_close is delegated to at once
PollCloseEager ==
    /\ kind = "writer"
    /\ phase \in {"open", "closing"}
    /\ PollCloseSink
    /\ UNCHANGED <<kind, words, state, buffer, pending_write_buffer, pending_state,
                   input, advances, accepted>>

\* AhoCorasickAsyncWriter::poll_close
PollClose ==
    /\ kind = "writer"
    /\ phase \in {"open", "closing"}
    /\ IF Len(potential_buffer) > 0 THEN PollCloseResidual ELSE PollCloseSink
    /\ UNCHANGED <<kind, words, state, buffer, pending_write_buffer, pending_state,
                   input, advances, accepted>>

---------------------------------------------------------------------------
(* Reader adapter *)

\* mutant of write_to_buffer_overflow_deque: the overflow goes to the front
\* of the queue
write_to_buffer_overflow_deque_front(l, n, char) ==
    IF Len(l.buf) < n
    THEN [l EXCEPT !.buf = Append(@, char)]
    ELSE [l EXCEPT !.pending_write_buffer = <<char>> \o @]

\* AhoCorasickAsyncReader::write_to_buffer_overflow_deque; l.buf is the part
\* buf[..write_idx] of the caller's buffer and n is buf.len()
write_to_buffer_overflow_deque(l, n, char) ==
    IF Len(l.buf) < n
    THEN [l EXCEPT !.buf = Append(@, char)]
    ELSE [l EXCEPT !.pending_write_buffer = Append(@, char)]

RECURSIVE reader_write_all(_, _, _)
\* write_to_buffer_overflow_deque for each byte of a sequence, in order
reader_write_all(l, n, bytes) ==
    IF bytes = <<>> THEN l
    ELSE reader_write_all(write_to_buffer_overflow_deque(l, n, Head(bytes)),
                          n, Tail(bytes))

\* mutant of reader_process_byte: a word with an empty replacement is
\* handled as a word without one
reader_process_byte_no_empty(nodes, l, n, byte) ==
    LET st == next_state(nodes, l.state, byte)
        current_state_depth == state_depth(nodes, st)
    IN IF is_state_root(nodes, st)
       THEN [write_to_buffer_overflow_deque(
                 reader_write_all(l, n, l.potential_buffer), n, byte)
                EXCEPT !.state = st, !.potential_buffer = <<>>]
       ELSE LET pot == Append(l.potential_buffer, byte)
                l1 == [reader_write_all(l, n, Popped(pot, current_state_depth))
                         EXCEPT !.state = st,
                                !.potential_buffer = Kept(pot, current_state_depth)]
            IN IF is_state_word(nodes, st)
               THEN IF state_replacement(nodes, st) \notin {None, Some(<<>>)}
                    THEN [reader_write_all(l1, n, state_replacement(nodes, st)[1])
                            EXCEPT !.potential_buffer = <<>>,
                                   !.state = reset_state]
                    ELSE [reader_write_all(l1, n, l1.potential_buffer)
                            EXCEPT !.potential_buffer = <<>>,
                                   !.state = reset_state]
               ELSE l1

\* the body of `for byte in &this.buffer[..size]` of poll_read
reader_process_byte(nodes, l, n, byte) ==
    LET st == next_state(nodes, l.state, byte)
        current_state_depth == state_depth(nodes, st)
    IN IF is_state_root(nodes, st)
       THEN [write_to_buffer_overflow_deque(
                 reader_write_all(l, n, l.potential_buffer), n, byte)
                EXCEPT !.state = st, !.potential_buffer = <<>>]
       ELSE LET pot == Append(l.potential_buffer, byte)
                l1 == [reader_write_all(l, n, Popped(pot, current_state_depth))
                         EXCEPT !.state = st,
                                !.potential_buffer = Kept(pot, current_state_depth)]
            IN IF is_state_word(nodes, st)
               THEN IF state_replacement(nodes, st) # None
                    THEN [reader_write_all(l1, n, state_replacement(nodes, st)[1])
                            EXCEPT !.potential_buffer = <<>>,
                                   !.state = reset_state]
                    ELSE [reader_write_all(l1, n, l1.potential_buffer)
                            EXCEPT !.potential_buffer = <<>>,
                                   !.state = reset_state]
               ELSE l1

RECURSIVE reader_process(_, _, _, _)
\* the `for byte in &this.buffer[..size]` loop of poll_read
reader_process(nodes, l, n, bytes) ==
    IF bytes = <<>> THEN l
    ELSE reader_process(nodes, reader_process_byte(nodes, l, n, Head(bytes)),
                        n, Tail(bytes))

\* poll_read, lines 62-70: the pending output is moved to the caller's buffer
reader_drain(st, pot, pending, n) ==
    LET k == Min(n, Len(pending))
    IN [state |-> st, potential_buffer |-> pot,
        buf |-> SubSeq(pending, 1, k),
        pending_write_buffer |-> SubSeq(pending, k + 1, Len(pending))]

\* mutant of reader_engine: at the end of the stream the potential buffer is
\* discarded instead of written out
reader_engine_discard(nodes, l, n, chunk) ==
    LET l1 == IF Len(chunk) = 0
              THEN [l EXCEPT !.potential_buffer = <<>>]
              ELSE l
    IN reader_process(nodes, l1, n, chunk)

\* poll_read, lines 78-123: upstream gave `chunk`; the end-of-stream flush of
\* the potential buffer, then the engine over the chunk
reader_engine(nodes, l, n, chunk) ==
    LET l1 == IF Len(chunk) = 0
              THEN [reader_write_all(l, n, l.potential_buffer)
                      EXCEPT !.potential_buffer = <<>>]
              ELSE l
    IN reader_process(nodes, l1, n, chunk)

\* AsyncRead::poll_read of the source into a buffer of length len: some bytes,
\* the end of the stream (for good once reported), an error, or not ready
SourceAnswers(len) ==
    {Pending} \cup MayFail
      \cup {[tag |-> "Ok", n |-> Len(c), bytes |-> c] :
              c \in Chunks(0, IF phase = "open"
                              THEN Min(len, MaxInput - Len(input)) ELSE 0)}

\* mutant of reader_ret: a chunk that wrote nothing is reported as 0 bytes
reader_ret_zero(write_idx, size) ==
    IF write_idx > 0 THEN Ok(write_idx) ELSE Ok(0)

\* poll_read, lines 124-140: the result after a chunk of `size` bytes
reader_ret(write_idx, size) ==
    IF write_idx > 0 THEN Ok(write_idx)
    ELSE IF size > 0 THEN Pending ELSE Ok(0)

\* mutant of reader_ret_not_ready: not ready whenever upstream is not ready
reader_ret_blocked(write_idx) == Pending

\* poll_read, lines 147-154: the result when upstream is not ready
reader_ret_not_ready(write_idx) ==
    IF write_idx > 0 THEN Ok(write_idx) ELSE Pending

\* poll_read, lines 71-74: the pending output filled the caller's buffer
PollReadFull(n, l) ==
    /\ buffer' = Resize(buffer, n)
    /\ pending_write_buffer' = l.pending_write_buffer
    /\ output' = output \o l.buf
    /\ last' = Call("poll_read", n, FALSE, "none", <<>>, NoAnswer, Ok(Len(l.buf)), FALSE)
    /\ UNCHANGED <<state, potential_buffer, input, phase, events, advances>>

\* poll_read, lines 75-155: the source is polled
PollReadSource(n, l, answer) ==
    /\ events' = EventsAfter(<<>>, answer)
                   \cup (IF answer.tag = "Ok" THEN CutInMatch(answer.bytes) ELSE {})
    /\ CASE answer.tag = "Pending" ->
              /\ pending_write_buffer' = l.pending_write_buffer
              /\ output' = output \o l.buf
              /\ last' = Call("poll_read", n, FALSE, "read", <<>>, answer,
                              reader_ret_not_ready(Len(l.buf)), FALSE)
              /\ buffer' = Resize(buffer, n)
              /\ UNCHANGED <<state, potential_buffer, input, phase, advances>>
         [] answer.tag = "Err" ->
              /\ buffer' = Resize(buffer, n)
              /\ pending_write_buffer' = l.pending_write_buffer
              /\ phase' = "failed"
              /\ last' = Call("poll_read", n, FALSE, "read", <<>>, answer, Err, FALSE)
              /\ UNCHANGED <<state, potential_buffer, input, output, advances>>
         [] OTHER ->
              LET size == answer.n
                  r == reader_engine(Nodes(words), l, n, answer.bytes)
                  write_idx == Len(r.buf)
                  ret == reader_ret(write_idx, size)
              IN /\ buffer' = Resize(buffer, n)
                 /\ state' = r.state
                 /\ potential_buffer' = r.potential_buffer
                 /\ pending_write_buffer' = r.pending_write_buffer
                 /\ input' = input \o answer.bytes
                 /\ advances' = advances + size
                 /\ output' = output \o r.buf
                 /\ phase' = IF size > 0 THEN phase
                             ELSE IF ret = Ok(0) THEN "done" ELSE "eof"
                 /\ last' = Call("poll_read", n, FALSE, "read", <<>>, Ok(size), ret,
                                 write_idx = 0 /\ size > 0)

\* AhoCorasickAsyncReader::poll_read
PollRead ==
    /\ kind = "reader"
    /\ phase \in {"open", "eof"}
    /\ \E n \in 0..MaxChunk :
        LET l == reader_drain(state, potential_buffer, pending_write_buffer, n)
        IN IF Len(l.buf) >= n
           THEN PollReadFull(n, l)
           ELSE \E answer \in SourceAnswers(Len(Resize(buffer, n))) :
                   PollReadSource(n, l, answer)
    /\ UNCHANGED <<kind, words, pending_state, accepted>>

---------------------------------------------------------------------------
(* Specification *)

Init ==
    /\ kind \in {"reader", "writer"}
    /\ words \in WordLists
    /\ state = root
    /\ potential_buffer = <<>>
    /\ buffer = <<>>
    /\ pending_write_buffer = <<>>
    /\ pending_state = None
    /\ input = <<>>
    /\ output = <<>>
    /\ phase = "open"
    /\ last = Call("none", 0, FALSE, "none", <<>>, NoAnswer, NoAnswer, FALSE)
    /\ events = {}
    /\ advances = 0
    /\ accepted = 0

Next == PollRead \/ PollWrite \/ PollFlush \/ PollClose

Spec == Init /\ [][Next]_vars

---------------------------------------------------------------------------
(* Clones of one automaton, each inside its own writer adapter *)

\* Under SpecClones the variables hold one entry per adapter: state[c] is
\* the AcAutomaton of adapter c (its `root`, the shared trie, and its
\* `state`, the cursor), potential_buffer[c] and buffer[c] are the adapter's
\* buffers, input[c] the bytes written to it and output[c] the bytes its
\* sink received; the sinks take every slice at once.
MaxClones == 2

\* struct AcAutomaton
AcAutomaton(nodes, cursor) == [root |-> nodes, state |-> cursor]

\* mutant of clone: the derived Clone, which copies the cursor too
clone_derived(self) == AcAutomaton(self.root, self.state)

\* impl Clone for AcAutomaton: the pointer to the trie is shared, the cursor
\* points at root
clone(self) == AcAutomaton(self.root, root)

RECURSIVE SumLen(_)
SumLen(seqs) == IF seqs = <<>> THEN 0 ELSE Len(Head(seqs)) + SumLen(Tail(seqs))

\* AhoCorasick::new(words).into_writer(sink)
InitClones ==
    /\ kind = "clones"
    /\ words \in WordLists
    /\ state = <<AcAutomaton(Nodes(words), root)>>
    /\ potential_buffer = << <<>> >>
    /\ buffer = << <<>> >>
    /\ input = << <<>> >>
    /\ output = << <<>> >>
    /\ pending_write_buffer = <<>>
    /\ pending_state = None
    /\ phase = "open"
    /\ last = Call("none", 0, FALSE, "none", <<>>, NoAnswer, NoAnswer, FALSE)
    /\ events = {}
    /\ advances = 0
    /\ accepted = 0

\* ac.clone().into_writer(sink), of the automaton of any adapter
CloneIntoWriter ==
    /\ kind = "clones"
    /\ Len(state) < MaxClones
    /\ \E c \in 1..Len(state) :
          state' = Append(state, clone(state[c]))
    /\ potential_buffer' = Append(potential_buffer, <<>>)
    /\ buffer' = Append(buffer, <<>>)
    /\ input' = Append(input, <<>>)
    /\ output' = Append(output, <<>>)
    /\ UNCHANGED <<kind, words, pending_write_buffer, pending_state, phase,
                   last, events, advances, accepted>>

\* poll_write of adapter c on a fresh chunk, its sink taking the slice
ClonePollWrite ==
    /\ kind = "clones"
    /\ \E c \in 1..Len(state), buf \in Chunks(1, MaxChunk) :
          LET l == writer_engine(state[c].root, state[c].state,
                                 potential_buffer[c], buffer[c], buf)
          IN /\ SumLen(input) + Len(buf) <= MaxInput
             /\ state' = [state EXCEPT ![c].state = l.state]
             /\ potential_buffer' = [potential_buffer EXCEPT ![c] = l.potential_buffer]
             /\ buffer' = [buffer EXCEPT ![c] = l.buffer]
             /\ input' = [input EXCEPT ![c] = @ \o buf]
             /\ output' = [output EXCEPT ![c] = @ \o SubSeq(l.buffer, 1, l.write_idx)]
             /\ last' = Call("poll_write", Len(buf), TRUE, "write",
                             SubSeq(l.buffer, 1, l.write_idx), Ok(l.write_idx),
                             Ok(Len(buf)), FALSE)
    /\ UNCHANGED <<kind, words, pending_write_buffer, pending_state, phase,
                   events, advances, accepted>>

NextClones == CloneIntoWriter \/ ClonePollWrite

SpecClones == InitClones /\ [][NextClones]_vars

---------------------------------------------------------------------------
(* Construction of an automaton from any pattern list, and its cursor *)

\* Under SpecBuild `words` is the list given to AcAutomaton::new so far and
\* `state` is the AcAutomaton under construction: its `root` (the trie) and
\* its `state` (the cursor); phase is "new" while words are added, "built"
\* after breadth_first_walk; `input` is the byte of the last next_state and
\* last.offered the path of the cursor before it.
MaxWords == 2
MaxPattern == 3

BuildAlphabet == {"a", "b"}

RECURSIVE PatternsOfLen(_)
PatternsOfLen(n) ==
    IF n = 0 THEN {<<>>}
    ELSE {Append(s, b) : s \in PatternsOfLen(n - 1), b \in BuildAlphabet}

\* the patterns given to new(): any byte string up to MaxPattern bytes
Patterns == UNION {PatternsOfLen(n) : n \in 0..MaxPattern}

\* AcAutomaton::new, lines 62-74: the root alone, the cursor on it
InitBuild ==
    /\ kind = "builder"
    /\ words = <<>>
    /\ state = AcAutomaton(root :> AcAutomatonNode(0), root)
    /\ phase = "new"
    /\ input = <<>>
    /\ potential_buffer = <<>>
    /\ buffer = <<>>
    /\ output = <<>>
    /\ pending_write_buffer = <<>>
    /\ pending_state = None
    /\ last = Call("none", 0, FALSE, "none", <<>>, NoAnswer, NoAnswer, FALSE)
    /\ events = {}
    /\ advances = 0
    /\ accepted = 0

\* AcAutomaton::new, lines 75-77: one turn of `for word in words`
BuildAddWord ==
    /\ kind = "builder" /\ phase = "new"
    /\ Len(words) < MaxWords
    /\ \E w \in Patterns :
          /\ words' = Append(words, <<w, Some(<<"X">>)>>)
          /\ state' = [state EXCEPT !.root = add_word(@, root, w, Some(<<"X">>))]
    /\ UNCHANGED <<kind, potential_buffer, buffer, pending_write_buffer,
                   pending_state, input, output, phase, last, events,
                   advances, accepted>>

\* AcAutomaton::new, line 78: breadth_first_walk, after which the automaton
\* is returned
BuildLinks ==
    /\ kind = "builder" /\ phase = "new"
    /\ LET st == breadth_first_walk(state.root)
       IN /\ state' = [state EXCEPT !.root = st.nodes]
          /\ phase' = IF st.panic THEN "panicked" ELSE "built"
    /\ UNCHANGED <<kind, words, potential_buffer, buffer, pending_write_buffer,
                   pending_state, input, output, last, events, advances,
                   accepted>>

\* AcAutomaton::next_state on the built automaton
BuildNextState ==
    /\ kind = "builder" /\ phase = "built"
    /\ \E char \in BuildAlphabet :
          /\ state' = [state EXCEPT !.state = next_state(state.root, @, char)]
          /\ input' = <<char>>
          /\ last' = Call("next_state", 0, FALSE, "none", state.state,
                          NoAnswer, NoAnswer, FALSE)
    /\ UNCHANGED <<kind, words, potential_buffer, buffer, pending_write_buffer,
                   pending_state, output, phase, events, advances, accepted>>

NextBuild == BuildAddWord \/ BuildLinks \/ BuildNextState

SpecBuild == InitBuild /\ [][NextBuild]_vars

---------------------------------------------------------------------------
(* Reference runs *)

\* the run met no I/O error and no short write, and no write was given up
Nominal == events \cap {"io_error", "short_write", "abandoned_write"} = {}

\* the bytes computed but held back because the other side was not ready or
\* had no room: the writer's saved slice, the reader's pending output
Held ==
    IF kind = "writer"
    THEN IF pending_state # None
         THEN SubSeq(buffer, 1, pending_state[1].bytes_to_write) ELSE <<>>
    ELSE pending_write_buffer

\* the writer fed the whole input as one chunk, then closed
WholeWriter(ws, in) ==
    LET l == writer_engine(Nodes(ws), root, <<>>, <<>>, in)
    IN SubSeq(l.buffer, 1, l.write_idx) \o l.potential_buffer

\* the reader whose source yields the whole input as one chunk, then the end
\* of the stream, read through a caller's buffer with room for everything
WholeReader(ws, in) ==
    LET room == 3 * Len(in) + 1
        l == reader_engine(Nodes(ws), reader_drain(root, <<>>, <<>>, room), room, in)
    IN l.buf \o l.pending_write_buffer \o l.potential_buffer

RECURSIVE ReadyWriter(_, _, _, _, _, _)
\* the writer fed one byte at a time into a sink that is always ready
ReadyWriter(nodes, st, pot, buff, rest, sink) ==
    IF rest = <<>> THEN sink \o pot
    ELSE LET l == writer_engine(nodes, st, pot, buff, <<Head(rest)>>)
         IN ReadyWriter(nodes, l.state, l.potential_buffer, l.buffer, Tail(rest),
                        sink \o SubSeq(l.buffer, 1, l.write_idx))

RECURSIVE ReadyReader(_, _, _, _, _, _)
\* the reader polled with a one-byte buffer over a source that is always
\* ready and yields one byte at a time
ReadyReader(nodes, st, pot, pending, rest, got) ==
    LET l == reader_drain(st, pot, pending, 1)
    IN IF Len(l.buf) >= 1
       THEN ReadyReader(nodes, st, pot, l.pending_write_buffer, rest, got \o l.buf)
       ELSE LET chunk == IF rest = <<>> THEN <<>> ELSE <<Head(rest)>>
                r == reader_engine(nodes, l, 1, chunk)
            IN IF chunk = <<>> /\ r.buf = <<>>
               THEN got
               ELSE ReadyReader(nodes, r.state, r.potential_buffer,
                                r.pending_write_buffer,
                                IF rest = <<>> THEN <<>> ELSE Tail(rest),
                                got \o r.buf)

---------------------------------------------------------------------------
(* Claims *)

\* C1. Chunk-size invariance: when a run has ended (the reader returned end
\* of stream, the writer's close completed) without an I/O fault, the
\* complete output is what the adapter gives for the same input taken as one
\* single chunk, however the input was cut into chunks.
ChunkSizeInvariance ==
    (phase = "done" /\ Nominal) =>
        output = IF kind = "reader" THEN WholeReader(words, input)
                 ELSE WholeWriter(words, input)

\* C1 witness: pattern aa -> XX over aaa, cut so that a chunk boundary fell
\* inside the match, came out as XXa through the writer.
ChunkSizeInvarianceWitness ==
    /\ phase = "done" /\ Nominal
    /\ kind = "writer"
    /\ words = << <<<<"a","a">>, Some(<<"X","X">>)>> >>
    /\ input = <<"a","a","a">>
    /\ output = <<"X","X","a">>
    /\ "cut_in_match" \in events

\* C2. Backpressure equivalence: a run in which the source or the sink
\* answered "not ready" ends, absent I/O faults, with the output of the run
\* over the same input in which it is always ready; and until then the bytes
\* delivered followed by the bytes held back are a prefix of that output.
BackpressureEquivalence ==
    LET ready == IF kind = "reader"
                 THEN ReadyReader(Nodes(words), root, <<>>, <<>>, input, <<>>)
                 ELSE ReadyWriter(Nodes(words), root, <<>>, <<>>, input, <<>>)
        have == output \o Held
    IN ("not_ready" \in events /\ Nominal) =>
          /\ Len(have) <= Len(ready)
          /\ have = SubSeq(ready, 1, Len(have))
          /\ phase = "done" => output = ready

\* C2 witness: a run that ended after the underlying source/sink had
\* answered "not ready", with a replacement made.
BackpressureEquivalenceWitness ==
    /\ phase = "done" /\ Nominal
    /\ "not_ready" \in events
    /\ output # input
    /\ Len(input) = MaxInput

\* the registered patterns and replacements
IsProperPrefix(p, q) == Len(p) < Len(q) /\ p = SubSeq(q, 1, Len(p))
Bytes(s) == {s[i] : i \in 1..Len(s)}
Registered == 1..Len(words)

\* the bytes of word j's replacement that occur neither in any input nor in
\* another word's replacement: where one of them is in the output, word j's
\* replacement was applied
Telltale(j) ==
    IF words[j][2] = None THEN {}
    ELSE {b \in Bytes(words[j][2][1]) :
            /\ b \notin Alphabet
            /\ \A k \in Registered \ {j} :
                  words[k][2] # None => b \notin Bytes(words[k][2][1])}

\* C3. Priority rule: where a registered (non-empty) pattern P is a proper
\* prefix of a registered pattern Q, Q's replacement is never applied: no
\* byte that only Q's replacement could have produced is among the bytes
\* delivered or held for delivery.
PriorityRule ==
    \A i, j \in Registered :
        (words[i][1] # <<>> /\ IsProperPrefix(words[i][1], words[j][1])) =>
            Telltale(j) \cap Bytes(output \o Held) = {}

\* pattern w occurs in `in` with its last byte at position e
EndsAt(w, in, e) ==
    /\ Len(w) <= e /\ e <= Len(in)
    /\ SubSeq(in, e - Len(w) + 1, e) = w

\* the positions of `in` where an occurrence of a registered non-empty
\* pattern ends
PatternEnds(in) ==
    {e \in 1..Len(in) :
        \E i \in Registered : words[i][1] # <<>> /\ EndsAt(words[i][1], in, e)}

\* C4. Protected word: when the first occurrence of any pattern to complete
\* in the input is (or completes together with) an occurrence of a protected
\* word, nothing was resolved before it, so the input up to the end of that
\* occurrence is in the finished output byte for byte.
ProtectedWord ==
    (phase = "done" /\ Nominal) =>
        \A e \in PatternEnds(input) :
            ( /\ \A d \in PatternEnds(input) : e <= d
              /\ \E i \in Registered :
                    /\ words[i][2] = None /\ words[i][1] # <<>>
                    /\ EndsAt(words[i][1], input, e) )
            => /\ Len(output) >= e
               /\ SubSeq(output, 1, e) = SubSeq(input, 1, e)

\* C5. I/O errors propagate: a call in which the underlying source or sink
\* answered with an I/O error returns that error to its caller.
IoErrorsPropagate ==
    last.answer.tag = "Err" => last.ret.tag = "Err"

\* C6. End-of-stream flush: the poll_read in which upstream reports the end
\* of the stream moves the whole potential buffer, in order, behind
\* everything delivered or queued before it; a poll_close that finds a
\* residual potential buffer offers the sink exactly those bytes, and the
\* bytes the sink takes go behind all earlier output. Nothing stays in the
\* potential buffer once the stream has ended.
EndOfStreamFlush ==
    [][ /\ (last'.call = "poll_read" /\ last'.asked = "read" /\ last'.answer = Ok(0)) =>
              /\ output' \o pending_write_buffer'
                    = output \o pending_write_buffer \o potential_buffer
              /\ potential_buffer' = <<>>
        /\ (last'.call = "poll_close" /\ potential_buffer # <<>>) =>
              /\ last'.asked = "write"
              /\ last'.offered = potential_buffer
              /\ last'.answer = Ok(Len(potential_buffer)) =>
                    /\ output' = output \o potential_buffer
                    /\ potential_buffer' = <<>>
        /\ phase' = "done" => potential_buffer' = <<>>
      ]_vars

EndOfStreamFlushWitness ==
    /\ kind = "reader" /\ phase = "done" /\ Nominal
    /\ words = << <<<<"a", "b">>, Some(<<"X", "Y">>)>> >>
    /\ input = <<"c", "a">>
    /\ output = <<"c", "a">>
    /\ last.answer = Ok(0)

\* the input length a PendingState stands for
PendingRead == IF pending_state # None THEN pending_state[1].bytes_read ELSE 0

\* C7. Writer resumption and exactly-once application: a PendingState is
\* left only by a poll_write whose sink was not ready, and it stands for the
\* slice that call offered and the input length it was given; while it is
\* outstanding it does not change; the next poll_write offers the sink that
\* same slice, leaves the cursor, the potential buffer and the consumed input
\* alone, and on success returns the recorded input length. The bytes the
\* cursor advanced over are the bytes reported accepted plus those a
\* PendingState stands for.
WriterResumption ==
    [][ /\ (pending_state = None /\ pending_state' # None) =>
              /\ last'.call = "poll_write" /\ last'.fresh
              /\ last'.answer = Pending /\ last'.ret = Pending
              /\ Held' = last'.offered
              /\ PendingRead' = last'.arg
        /\ (pending_state # None /\ pending_state' # None) =>
              /\ pending_state' = pending_state
              /\ Held' = Held
        /\ (pending_state # None /\ last'.call = "poll_write") =>
              /\ ~last'.fresh
              /\ last'.asked = "write" /\ last'.offered = Held
              /\ state' = state /\ potential_buffer' = potential_buffer
              /\ input' = input /\ advances' = advances
              /\ last'.ret.tag = "Ok" => last'.ret.n = PendingRead
              /\ last'.ret.tag # "Ok" => pending_state' = pending_state
        /\ kind = "writer" => advances' = accepted' + PendingRead'
      ]_vars

WriterResumptionWitness ==
    /\ kind = "writer"
    /\ last.call = "poll_write" /\ ~last.fresh
    /\ last.ret.tag = "Ok" /\ last.ret.n # Len(last.offered)
    /\ pending_state = None
    /\ "not_ready" \in events /\ Nominal

\* C8. Writer accepted count: a poll_write on a fresh chunk that returns
\* success returns the length of the chunk, which is the number of input
\* bytes the engine consumed in that call, whatever was offered to the sink.
WriterAcceptedCount ==
    [][ (last'.call = "poll_write" /\ last'.fresh /\ last'.ret.tag = "Ok") =>
            /\ last'.ret.n = Len(input') - Len(input)
            /\ last'.ret.n = last'.arg
      ]_vars

WriterAcceptedCountWitness ==
    /\ kind = "writer"
    /\ words = << <<<<"a", "b", "c">>, Some(<<>>)>> >>
    /\ input = <<"a", "b", "c">>
    /\ last.call = "poll_write" /\ last.fresh
    /\ last.ret = Ok(2)
    /\ last.asked = "none"
    /\ output = <<>> /\ potential_buffer = <<>>

\* C9. Close ordering: a poll_close asks the sink to close only when the
\* potential buffer is empty; with a residual it offers exactly the residual
\* to the sink's write and does not close; a sink that is not ready leaves
\* the residual and the output as they were; the residual leaves the buffer
\* only in a poll_close whose write to the sink completed.
CloseOrdering ==
    [][ /\ last'.call = "poll_close" =>
              /\ last'.asked = "close" =>
                    potential_buffer = <<>> /\ potential_buffer' = <<>>
              /\ potential_buffer # <<>> =>
                    /\ last'.asked = "write"
                    /\ last'.offered = potential_buffer
                    /\ phase' # "done"
              /\ (last'.asked = "write" /\ last'.answer = Pending) =>
                    /\ potential_buffer' = potential_buffer
                    /\ output' = output
                    /\ last'.ret = Pending
              /\ (last'.asked = "write" /\ last'.answer = Ok(Len(potential_buffer))) =>
                    /\ output' = output \o potential_buffer
                    /\ potential_buffer' = <<>>
        /\ (phase = "closing" /\ potential_buffer # <<>> /\ potential_buffer' = <<>>) =>
              /\ last'.call = "poll_close" /\ last'.asked = "write"
              /\ last'.answer.tag # "Pending"
      ]_vars

CloseOrderingWitness ==
    /\ kind = "writer" /\ phase = "closing"
    /\ last.call = "poll_close" /\ last.asked = "write"
    /\ last.answer = Pending
    /\ potential_buffer = <<"a", "b">>
    /\ last.offered = potential_buffer

\* C10. Reader end-of-stream: a poll_read with a non-empty caller buffer
\* returns 0 bytes only in the call where upstream reported the end of the
\* stream with the pending output and the potential buffer both empty; a
\* call whose upstream chunk was non-empty and that delivered nothing wakes
\* the task and returns not ready.
ReaderEndOfStream ==
    [][ last'.call = "poll_read" =>
          /\ (last'.arg > 0 /\ last'.ret = Ok(0)) =>
                /\ last'.asked = "read" /\ last'.answer = Ok(0)
                /\ pending_write_buffer = <<>> /\ potential_buffer = <<>>
                /\ pending_write_buffer' = <<>> /\ potential_buffer' = <<>>
          /\ (last'.answer.tag = "Ok" /\ last'.answer.n > 0 /\ output' = output) =>
                /\ last'.ret = Pending
                /\ last'.woke
      ]_vars

ReaderEndOfStreamWitness ==
    /\ kind = "reader"
    /\ last.call = "poll_read" /\ last.arg > 0
    /\ last.answer.tag = "Ok" /\ last.answer.n > 0
    /\ last.ret = Pending /\ last.woke
    /\ potential_buffer # <<>>

RECURSIVE Strip(_, _)
\* `in` with the occurrences of the non-empty pattern w cut out, leftmost
\* first
Strip(w, in) ==
    IF Len(in) < Len(w) THEN in
    ELSE IF SubSeq(in, 1, Len(w)) = w
         THEN Strip(w, SubSeq(in, Len(w) + 1, Len(in)))
         ELSE <<Head(in)>> \o Strip(w, Tail(in))

\* C11. Empty replacement: for a pattern whose replacement is the empty byte
\* sequence (the only pattern registered), the bytes delivered, those held
\* for delivery and the potential buffer are together the input consumed
\* with every occurrence of the pattern cut out and every other byte
\* unchanged; the finished output is the input without the occurrences.
EmptyReplacement ==
    (Nominal /\ Len(words) = 1 /\ words[1][2] = Some(<<>>)) =>
        /\ output \o Held \o potential_buffer = Strip(words[1][1], input)
        /\ phase = "done" => output = Strip(words[1][1], input)

EmptyReplacementWitness ==
    /\ kind = "reader" /\ phase = "done" /\ Nominal
    /\ words = << <<<<"a", "b">>, Some(<<>>)>> >>
    /\ input = <<"c", "a", "b">>
    /\ output = <<"c">>
    /\ "cut_in_match" \in events

\* what a span of input may stand as in the output: itself, or the
\* replacement of a registered pattern it spells
SpanImages(span) ==
    {span} \cup {words[i][2][1] : i \in {j \in Registered :
                                          words[j][1] = span /\ words[j][2] # None}}

RECURSIVE Images(_)
\* the outputs that keep the order of the input: the input cut into
\* consecutive spans, each span standing as one of its images, the images
\* in the order of the spans
Images(in) ==
    IF in = <<>> THEN {<<>>}
    ELSE UNION {{img \o rest : img \in SpanImages(SubSeq(in, 1, k)),
                               rest \in Images(SubSeq(in, k + 1, Len(in)))} :
                k \in 1..Len(in)}

\* C12. Ordering and atomic replacement: at every moment the bytes
\* delivered, followed by those held for delivery (the reader's pending
\* queue, the writer's saved slice) and the potential buffer, are the input
\* consumed so far cut into consecutive spans, each span either unchanged or
\* standing as the whole replacement of the pattern it spells, in the order
\* of the spans.
OrderedAtomicOutput ==
    Nominal => (output \o Held \o potential_buffer) \in Images(input)

\* a replacement split between the caller's buffer and the pending queue
OrderedAtomicOutputWitness ==
    /\ kind = "reader" /\ Nominal
    /\ words = << <<<<"a", "b">>, Some(<<"X", "Y">>)>> >>
    /\ input = <<"c", "a", "b">>
    /\ output = <<"c", "X">>
    /\ pending_write_buffer = <<"Y">>

\* C13. Clone isolation: every adapter built from a clone holds the trie as
\* constructed, and whatever the interleaving of the adapters' polls its
\* cursor, its potential buffer and the bytes its sink received are those of
\* an adapter that is given the same input alone; a fresh clone (no input
\* yet) has its cursor at root, wherever the cursor of the cloned automaton
\* was.
CloneIsolation ==
    \A c \in 1..Len(state) :
        LET alone == writer_engine(Nodes(words), root, <<>>, <<>>, input[c])
        IN /\ state[c].root = Nodes(words)
           /\ state[c].state = alone.state
           /\ potential_buffer[c] = alone.potential_buffer
           /\ output[c] = SubSeq(alone.buffer, 1, alone.write_idx)

\* the first adapter is in the middle of a pattern when the second is
\* cloned from it, and resolves its match after the second has moved
CloneIsolationWitness ==
    /\ Len(state) = 2
    /\ words = << <<<<"a", "b">>, Some(<<"X", "Y">>)>> >>
    /\ input = << <<"a", "b">>, <<"a">> >>
    /\ output = << <<"X", "Y">>, <<>> >>
    /\ state[1].state = root /\ state[2].state = <<"a">>

\* the bytes a poll_read on a caller's buffer of n bytes copies from the
\* pending-output queue
Copied(n) == SubSeq(pending_write_buffer, 1, Min(n, Len(pending_write_buffer)))

\* C14. Reader never blocks with data in hand: a poll_read in which upstream
\* answers not ready returns the bytes it copied from the pending-output
\* queue, with their count, when it copied any, and delivers them; it
\* returns not ready only when it copied none. A poll_read whose queue holds
\* enough to fill the caller's buffer returns the full buffer and does not
\* poll upstream.
ReaderNeverBlocks ==
    [][ last'.call = "poll_read" =>
          /\ (last'.asked = "read" /\ last'.answer = Pending) =>
                /\ Copied(last'.arg) # <<>> =>
                      /\ last'.ret = Ok(Len(Copied(last'.arg)))
                      /\ output' = output \o Copied(last'.arg)
                      /\ pending_write_buffer'
                            = SubSeq(pending_write_buffer, last'.ret.n + 1,
                                     Len(pending_write_buffer))
                /\ last'.ret = Pending => Copied(last'.arg) = <<>>
          /\ last'.ret = Pending =>
                (Copied(last'.arg) = <<>> /\ output' = output)
          /\ Len(pending_write_buffer) >= last'.arg =>
                /\ last'.asked = "none"
                /\ last'.ret = Ok(last'.arg)
                /\ output' = output \o Copied(last'.arg)
      ]_vars

ReaderNeverBlocksWitness ==
    /\ kind = "reader"
    /\ last.call = "poll_read" /\ last.asked = "read"
    /\ last.answer = Pending
    /\ last.ret = Ok(1) /\ last.arg = 2
    /\ output # <<>>

\* the engine resolves a match on byte b: the cursor, advanced from node
\* `from`, is off the root and at a word node
Resolves(from, b) ==
    LET st == next_state(Nodes(words), from, b)
    IN ~is_state_root(Nodes(words), st) /\ is_state_word(Nodes(words), st)

\* C15. Reset after match: a step of either adapter that consumes one input
\* byte on which the engine resolves a match (a word with a replacement or
\* a protected word) leaves the cursor at root and the potential buffer
\* empty, which is the engine state of a fresh adapter.
ResetAfterMatch ==
    [][ (Len(input') = Len(input) + 1 /\ Resolves(state, input'[Len(input')])) =>
            /\ state' = root
            /\ potential_buffer' = <<>>
      ]_vars

\* a protected word has just been resolved
ResetAfterMatchWitness ==
    /\ kind = "writer"
    /\ words[1] = << <<"a", "b">>, None >>
    /\ input = <<"c", "a", "b">>
    /\ output = <<"c", "a", "b">>
    /\ last.call = "poll_write" /\ last.arg = 1
    /\ state = root /\ potential_buffer = <<>>

\* AcAutomaton::new did not return an automaton: the only way it has is the
\* panic of the builder
ConstructionFails(ws) == Automata[ws].panic

\* C16. Empty pattern rejected: the construction from a pattern list that
\* contains an empty pattern fails, so no adapter consumes input over an
\* automaton built from such a list.
EmptyPatternRejected ==
    ((\E i \in Registered : words[i][1] = <<>>) /\ input # <<>>) =>
        ConstructionFails(words)

\* C17. Earliest-complete match: when the engine resolves a match on an
\* input byte, no occurrence of a registered (non-empty) pattern ended
\* before that byte among the bytes consumed since the last reset and still
\* unresolved, which are the potential buffer.
EarliestCompleteMatch ==
    [][ (Len(input') = Len(input) + 1 /\ Resolves(state, input'[Len(input')])) =>
            \A i \in Registered, e \in 1..Len(potential_buffer) :
                words[i][1] # <<>> => ~EndsAt(words[i][1], potential_buffer, e)
      ]_vars

\* the suffixes of w, w itself and the empty one included
Suffixes(w) == {SubSeq(w, k, Len(w)) : k \in 1..(Len(w) + 1)}

\* the longest byte string of a non-empty set
Longest(S) == CHOOSE s \in S : \A t \in S : Len(t) <= Len(s)

\* the node of the longest suffix of w that is a path of the trie (the root
\* when only the empty suffix is)
LongestSuffixNode(nodes, w) == Longest(Suffixes(w) \cap DOMAIN nodes)

\* C18. Failure links: in the constructed automaton the failure link of
\* every non-root node with path w is the node of the longest proper suffix
\* of w that is a path of the trie, the root when there is none.
FailureLinks ==
    phase = "built" =>
        \A n \in DOMAIN state.root \ {root} :
            state.root[n].suffix_link = Some(LongestSuffixNode(state.root, Tail(n)))

\* aba's parent ab fails to b, which has no child a: the search goes on to
\* the root and finds a
FailureLinksWitness ==
    /\ phase = "built"
    /\ words = << <<<<"a", "b", "a">>, Some(<<"X">>)>>, <<<<"b">>, Some(<<"X">>)>> >>
    /\ state.root[<<"a", "b">>].suffix_link = Some(<<"b">>)
    /\ state.root[<<"a", "b", "a">>].suffix_link = Some(<<"a">>)

\* C19. Cursor advance: next_state on byte b from the cursor at the node
\* with path w leaves the cursor at the node of the longest suffix of w.b
\* that is a path of the trie (the root when only the empty suffix is), and
\* the depth grows by at most one.
CursorAdvance ==
    [][ (phase = "built" /\ phase' = "built") =>
            /\ state'.state = LongestSuffixNode(state.root, state.state \o input')
            /\ state.root[state'.state].depth = Len(state'.state)
            /\ Len(state'.state) <= Len(state.state) + 1
            /\ state'.root = state.root
      ]_vars

\* from abb on a: abb fails to b, b has child a
CursorAdvanceWitness ==
    /\ phase = "built"
    /\ words = << <<<<"a", "b", "b">>, Some(<<"X">>)>>, <<<<"b", "a">>, Some(<<"X">>)>> >>
    /\ last.call = "next_state" /\ last.offered = <<"a", "b", "b">>
    /\ input = <<"a">>
    /\ state.state = <<"b", "a">>

\* C20. Potential-buffer length: while input is being processed, the
\* potential buffer is as long as the cursor's node is deep: as long as the
\* depth when the last byte left the cursor off the root, empty when it left
\* the cursor at root or resolved a match (which resets the cursor to root).
PotentialBufferLength ==
    (kind \in {"reader", "writer"} /\ phase = "open") =>
        /\ Len(potential_buffer) = state_depth(Nodes(words), state)
        /\ is_state_root(Nodes(words), state) => potential_buffer = <<>>
        /\ ~is_state_root(Nodes(words), state) => ~is_state_word(Nodes(words), state)

\* after "ab" the cursor of abc -> "" was at depth 2; on 'a' it fell back
\* to the node a and the buffer was cut down to one byte
PotentialBufferLengthWitness ==
    /\ kind = "reader" /\ phase = "open"
    /\ words = << <<<<"a", "b", "c">>, Some(<<>>)>> >>
    /\ input = <<"a", "b", "a">>
    /\ state = <<"a">>
    /\ potential_buffer = <<"a">>
    /\ output \o pending_write_buffer = <<"a", "b">>

\* C21. Root uniqueness and builder safety: the construction from any
\* pattern list never reaches the builder's fatal branch ("current node's
\* suffix link must always exist"), and in the constructed automaton the
\* root is the only node without a failure link, so that is_state_root is
\* true of the root and of no other node.
RootUniqueness ==
    /\ phase # "panicked"
    /\ phase = "built" =>
          \A n \in DOMAIN state.root :
              /\ (state.root[n].suffix_link = None) <=> (n = root)
              /\ is_state_root(state.root, n) <=> (n = root)

\* a trie of two branches, three levels deep, every node below the root
\* with its link
RootUniquenessWitness ==
    /\ phase = "built"
    /\ words = << <<<<"a", "a", "b">>, Some(<<"X">>)>>, <<<<"b", "b">>, Some(<<"X">>)>> >>
    /\ Cardinality(DOMAIN state.root) = 6
    /\ \A n \in DOMAIN state.root \ {root} : state.root[n].suffix_link # None
    /\ state.root[root].suffix_link = None

\* the proper suffixes of w that are registered patterns: the paths of the
\* word nodes of the trie
WordSuffixes(nodes, w) ==
    {s \in Suffixes(w) \ {w} : s \in DOMAIN nodes /\ nodes[s].is_word}

\* C22. Output links: in the constructed automaton the output link of every
\* node with path w is the node of the longest proper suffix of w that is a
\* registered pattern, and is absent when no proper suffix of w is one.
OutputLinks ==
    phase = "built" =>
        \A n \in DOMAIN state.root :
            state.root[n].output_link =
                IF WordSuffixes(state.root, n) = {} THEN None
                ELSE Some(Longest(WordSuffixes(state.root, n)))

\* the end-of-stream flush has happened: the reader saw upstream return zero
\* bytes; the writer's close found no residual or has written it
Flushed ==
    \/ kind = "reader" /\ phase \in {"eof", "done"}
    \/ kind = "writer" /\ phase \in {"closing", "done"} /\ potential_buffer = <<>>

\* C23. State reset at end of stream: after the end-of-stream flush of a run
\* without I/O fault the potential buffer is empty and the cursor is at
\* root.
StateResetAtEndOfStream ==
    (Flushed /\ Nominal) => (potential_buffer = <<>> /\ state = root)

RECURSIVE LinksFollowed(_, _, _, _)
\* the number of failure links find_next_state follows from node `this` on
\* byte char, or -1 when it would follow more than `fuel` of them
LinksFollowed(nodes, this, char, fuel) ==
    IF HasChild(nodes, this, char) THEN 0
    ELSE IF nodes[this].suffix_link = None THEN 0
    ELSE IF fuel = 0 THEN -1
    ELSE LET rest == LinksFollowed(nodes, nodes[this].suffix_link[1], char, fuel - 1)
         IN IF rest < 0 THEN rest ELSE rest + 1

\* C24. Advance terminates: in the constructed automaton every failure link
\* points to a node of strictly smaller depth than its owner, and from any
\* node of depth d, on any byte, find_next_state follows at most d failure
\* links before it returns.
AdvanceTerminates ==
    phase = "built" =>
        /\ \A n \in DOMAIN state.root \ {root} :
              /\ state.root[n].suffix_link # None
              /\ state_depth(state.root, state.root[n].suffix_link[1])
                    < state_depth(state.root, n)
        /\ \A n \in DOMAIN state.root, char \in BuildAlphabet :
              LinksFollowed(state.root, n, char, state_depth(state.root, n))
                 \in 0..state_depth(state.root, n)

\* from aab on a: aab fails to ab, ab fails to the root, the root has the
\* child a; two links were followed from depth 3
AdvanceTerminatesWitness ==
    /\ phase = "built"
    /\ words = << <<<<"a", "a", "b">>, Some(<<"X">>)>>, <<<<"a", "b">>, Some(<<"X">>)>> >>
    /\ last.call = "next_state" /\ last.offered = <<"a", "a", "b">>
    /\ input = <<"a">>
    /\ state.state = <<"a">>
    /\ LinksFollowed(state.root, last.offered, "a", 3) = 2

\* C25. No output byte is lost on a short write: a writer run in which the
\* sink accepted fewer bytes than the slice offered (and met no error, and
\* gave no write up) ends with the sink holding every byte the engine
\* produced, once and in order: the output of the run over the same input
\* into a sink that takes every slice whole.
NoLossOnShortWrite ==
    ( /\ kind = "writer" /\ phase = "done"
      /\ "short_write" \in events
      /\ events \cap {"io_error", "abandoned_write"} = {} )
    => output = ReadyWriter(Nodes(words), root, <<>>, <<>>, input, <<>>)

RECURSIVE Descend(_, _, _)
\* the node reached from node n by following the children labelled with the
\* bytes of w, in order; None when a child is missing
Descend(nodes, n, w) ==
    IF w = <<>> THEN Some(n)
    ELSE IF HasChild(nodes, n, Head(w))
         THEN Descend(nodes, nodes[n].children[Head(w)], Tail(w))
         ELSE None

\* the last k bytes of s
LastBytes(s, k) == SubSeq(s, Len(s) - k + 1, Len(s))

\* C26. The potential buffer spells the cursor's path: after a step of
\* either adapter that processed input bytes, the bytes of the potential
\* buffer, oldest first, label the path from the root to the cursor's node,
\* and they are the last bytes of the input consumed.
BufferSpellsPath ==
    [][ Len(input') > Len(input) =>
            /\ Descend(Nodes(words), root, potential_buffer') = Some(state')
            /\ Len(potential_buffer') <= Len(input')
            /\ potential_buffer' = LastBytes(input', Len(potential_buffer'))
      ]_vars

\* from ab on a the cursor failed to b and went down to ba: the buffer
\* dropped its oldest byte and holds the last two bytes consumed
BufferSpellsPathWitness ==
    /\ kind = "writer" /\ phase = "open"
    /\ words = << <<<<"a", "b", "c">>, Some(<<"X">>)>>, <<<<"b", "a", "b">>, Some(<<"Y">>)>> >>
    /\ input = <<"a", "b", "a">>
    /\ state = <<"b", "a">>
    /\ potential_buffer = <<"b", "a">>
    /\ output \o Held = <<"a">>

\* C27. Close does not lose computed output: a poll_close that finds a
\* PendingState outstanding offers the saved output slice to the sink's
\* write, and neither the residual potential buffer nor the sink's close
\* comes before it; the PendingState is dropped only once its slice was
\* offered.
CloseForwardsPending ==
    [][ (last'.call = "poll_close" /\ pending_state # None) =>
            /\ last'.asked = "write"
            /\ last'.offered = Held
            /\ last'.answer = Pending => pending_state' = pending_state
      ]_vars

\* C28. The reader reports every byte it dequeues: a poll_read that copied
\* bytes from the pending-output queue into the caller's buffer returns a
\* byte count that covers them, whatever upstream answered in that call
\* (data, end of stream, not ready, error), and they are delivered.
ReaderReportsDequeued ==
    [][ (last'.call = "poll_read" /\ Copied(last'.arg) # <<>>) =>
            /\ last'.ret.tag = "Ok"
            /\ last'.ret.n >= Len(Copied(last'.arg))
            /\ Len(output') = Len(output) + last'.ret.n
            /\ SubSeq(output', Len(output) + 1, Len(output) + Len(Copied(last'.arg)))
                  = Copied(last'.arg)
      ]_vars

\* no registered pattern occurs in `in` as a substring
MatchFree(in) ==
    \A i \in Registered, e \in 0..Len(in) : ~EndsAt(words[i][1], in, e)

\* C29. Identity on match-free input: in a run without I/O fault over an
\* input in which no registered pattern occurs, at every moment the bytes
\* emitted (delivered, or held for delivery) followed by the potential
\* buffer are the input consumed so far, and the finished output is the
\* input, byte for byte.
MatchFreeIdentity ==
    (kind \in {"reader", "writer"} /\ Nominal /\ MatchFree(input)) =>
        /\ output \o Held \o potential_buffer = input
        /\ phase = "done" => output = input

\* aba holds the starts of abc and of bab and completes neither; the
\* chunks cut it inside those starts
MatchFreeIdentityWitness ==
    /\ kind = "writer" /\ phase = "done" /\ Nominal
    /\ words = << <<<<"a", "b", "c">>, Some(<<"X">>)>>, <<<<"b", "a", "b">>, Some(<<"Y">>)>> >>
    /\ input = <<"a", "b", "a">>
    /\ MatchFree(input)
    /\ output = input
    /\ "cut_in_match" \in events

====
